---- MODULE Spec2Model ----
(***************************************************************************)
(* Model of localit (src/src/index.ts): a namespacing and expiration layer *)
(* over the two Web Storage backends.                                      *)
(*                                                                         *)
(* JavaScript strings are sequences of one-character strings, so that key  *)
(* derivation, String.prototype.includes, String.prototype.replace,        *)
(* Number(), JSON.stringify and JSON.parse are computed character by       *)
(* character.  JavaScript values are records [t |-> type tag, v |-> data]. *)
(* Time is in milliseconds, as in Date; the local time zone of the host is *)
(* part of the state, because the code computes with local time.           *)
(***************************************************************************)
EXTENDS Integers, Sequences, FiniteSets

\* ------------------------------------------------------------------------
\* Bounds of the model
\* ------------------------------------------------------------------------

\* the clock reading when the module is loaded (milliseconds)
Now0 == 5000

\* how many times the clock advances in a run
MaxTicks == 2

\* how many items the two Storages hold together, at most
MaxItems == 2

\* ------------------------------------------------------------------------
\* Characters
\* ------------------------------------------------------------------------

\* A character is a UTF-16 code unit: a one-character string where TLA+ can
\* write one, and the name of the code unit ("U+00A0", with four upper case
\* hexadecimal digits) where it cannot.

DigitChars == <<"0", "1", "2", "3", "4", "5", "6", "7", "8", "9">>

IsDigit(c) == \E i \in 1..10 : DigitChars[i] = c

\* the value of each digit
DigitValues == [c \in {DigitChars[i] : i \in 1..10} |-> (CHOOSE i \in 1..10 : DigitChars[i] = c) - 1]

DigitVal(c) == DigitValues[c]

HexChars == <<"0", "1", "2", "3", "4", "5", "6", "7", "8", "9", "a", "b", "c", "d", "e", "f">>
HexCharsUpper ==
    <<"0", "1", "2", "3", "4", "5", "6", "7", "8", "9", "A", "B", "C", "D", "E", "F">>

IsHexDigit(c) == \E i \in 1..16 : HexChars[i] = c \/ HexCharsUpper[i] = c

HexVal(c) == (CHOOSE i \in 1..16 : HexChars[i] = c \/ HexCharsUpper[i] = c) - 1

\* the characters of code 0 to 127, the one of code n at index n + 1 (the
\* grave accent, which a TLA+ string cannot hold, is "U+0060")
Ascii ==
    <<
    "U+0000", "U+0001", "U+0002", "U+0003", "U+0004", "U+0005", "U+0006", "U+0007",
    "U+0008", "\t", "\n", "U+000B", "\f", "\r", "U+000E", "U+000F",
    "U+0010", "U+0011", "U+0012", "U+0013", "U+0014", "U+0015", "U+0016", "U+0017",
    "U+0018", "U+0019", "U+001A", "U+001B", "U+001C", "U+001D", "U+001E", "U+001F",
    " ", "!", "\"", "#", "$", "%", "&", "'",
    "(", ")", "*", "+", ",", "-", ".", "/",
    "0", "1", "2", "3", "4", "5", "6", "7",
    "8", "9", ":", ";", "<", "=", ">", "?",
    "@", "A", "B", "C", "D", "E", "F", "G",
    "H", "I", "J", "K", "L", "M", "N", "O",
    "P", "Q", "R", "S", "T", "U", "V", "W",
    "X", "Y", "Z", "[", "\\", "]", "^", "_",
    "U+0060", "a", "b", "c", "d", "e", "f", "g",
    "h", "i", "j", "k", "l", "m", "n", "o",
    "p", "q", "r", "s", "t", "u", "v", "w",
    "x", "y", "z", "{", "|", "}", "~", "U+007F"
    >>

\* the name of the code unit n
CodeUnitName(n) ==
    "U+" \o HexCharsUpper[(n \div 4096) + 1] \o HexCharsUpper[((n \div 256) % 16) + 1]
         \o HexCharsUpper[((n \div 16) % 16) + 1] \o HexCharsUpper[(n % 16) + 1]

\* String.fromCharCode(n)
CharOfCode(n) == IF n < 128 THEN Ascii[n + 1] ELSE CodeUnitName(n)

\* a control character (code below 32), and its code
IsControl(c) == \E i \in 1..32 : Ascii[i] = c
ControlCode(c) == (CHOOSE i \in 1..32 : Ascii[i] = c) - 1

\* the two halves of a character beyond U+FFFF
HighSurrogates == { CodeUnitName(n) : n \in 55296..56319 }
LowSurrogates == { CodeUnitName(n) : n \in 56320..57343 }

\* the code unit of a surrogate
CodeOfSurrogate(c) == CHOOSE n \in 55296..57343 : CodeUnitName(n) = c

\* the white space and line terminators Number() trims: tab, vertical tab,
\* form feed, space, no-break space, byte order mark, the space separators,
\* line feed, carriage return, line and paragraph separator
WhiteSpaceChars ==
    { "\t", "U+000B", "\f", " ", "U+00A0", "U+FEFF", "\n", "\r", "U+2028", "U+2029",
      "U+1680", "U+2000", "U+2001", "U+2002", "U+2003", "U+2004", "U+2005", "U+2006", "U+2007", "U+2008", "U+2009", "U+200A", "U+202F", "U+205F", "U+3000" }

IsSpace(c) == c \in WhiteSpaceChars

\* the white space of JSON text: space, tab, line feed, carriage return
IsJSONSpace(c) == c \in {" ", "\t", "\n", "\r"}

\* first index at or after i that does not hold white space
RECURSIVE SkipWs(_, _)
SkipWs(s, i) ==
    IF i <= Len(s) /\ IsSpace(s[i]) THEN SkipWs(s, i + 1) ELSE i

\* last index at or before j that does not hold white space
RECURSIVE SkipWsBack(_, _)
SkipWsBack(s, j) ==
    IF j >= 1 /\ IsSpace(s[j]) THEN SkipWsBack(s, j - 1) ELSE j

\* first index at or after i that does not hold JSON white space
RECURSIVE SkipJSONWs(_, _)
SkipJSONWs(s, i) ==
    IF i <= Len(s) /\ IsJSONSpace(s[i]) THEN SkipJSONWs(s, i + 1) ELSE i

\* ------------------------------------------------------------------------
\* JavaScript values
\* ------------------------------------------------------------------------

Null == [t |-> "null", v |-> 0]
Undefined == [t |-> "undefined", v |-> 0]
\* a number that is an integer
Num(n) == [t |-> "num", v |-> n]
\* any other finite number, sign * digits / 10^s, the digits having neither
\* a leading nor a trailing zero (s is negative for an integer that ends in
\* zeros)
Dec(sign, digits, s) == [t |-> "dec", sign |-> sign, v |-> digits, s |-> s]
\* Infinity (sign 1) and -Infinity (sign -1)
Inf(sign) == [t |-> "inf", v |-> sign]
Bool(b) == [t |-> "bool", v |-> b]
Str(s) == [t |-> "str", v |-> s]
Arr(a) == [t |-> "arr", v |-> a]
\* an object is the sequence of its <<property name, value>> pairs
Obj(m) == [t |-> "obj", v |-> m]
NaN == [t |-> "nan", v |-> 0]
\* the outcome of a call that raises instead of returning
Throw == [t |-> "throw", v |-> 0]

\* typeof value === "object"
IsObjectType(val) == val.t \in {"null", "arr", "obj"}

\* the parts one after the other with sep between them
RECURSIVE JoinWith(_, _)
JoinWith(parts, sep) ==
    IF parts = <<>> THEN <<>>
    ELSE IF Len(parts) = 1 THEN parts[1]
    ELSE parts[1] \o sep \o JoinWith(Tail(parts), sep)

\* ------------------------------------------------------------------------
\* Numbers
\* ------------------------------------------------------------------------

\* A Number is a double.  A finite one is named by the digits of its
\* shortest decimal text, the text Number.prototype.toString writes: Num(n)
\* when it is an integer of at most nine digits, Dec(sign, digits, s)
\* otherwise.  Arithmetic beyond nine digits is done on runs of decimal
\* digits, the most significant first, the empty run being 0.

RECURSIVE Pow10(_)
Pow10(n) == IF n <= 0 THEN 1 ELSE 10 * Pow10(n - 1)

Abs(n) == IF n < 0 THEN 0 - n ELSE n

Max(a, b) == IF a < b THEN b ELSE a

\* the decimal digits of a natural number (Number.prototype.toString)
RECURSIVE NatToStr(_)
NatToStr(n) ==
    IF n < 10 THEN <<DigitChars[n + 1]>>
    ELSE NatToStr(n \div 10) \o <<DigitChars[(n % 10) + 1]>>

NumToStr(n) == IF n < 0 THEN <<"-">> \o NatToStr(0 - n) ELSE NatToStr(n)

\* the run of digits of a natural number of the model
NatOf(n) == IF n = 0 THEN <<>> ELSE NatToStr(n)

\* index after the run of digits starting at i
RECURSIVE DigitsEnd(_, _)
DigitsEnd(s, i) ==
    IF i <= Len(s) /\ IsDigit(s[i]) THEN DigitsEnd(s, i + 1) ELSE i

\* the value of the digit run s[i..j], of at most nine digits
RECURSIVE DigitsVal(_, _, _)
DigitsVal(s, i, j) ==
    IF j < i THEN 0 ELSE DigitsVal(s, i, j - 1) * 10 + DigitVal(s[j])

\* runs of n zeros and of n nines
Zeros(n) == SubSeq([i \in 1..n |-> "0"], 1, n)
Nines(n) == SubSeq([i \in 1..n |-> "9"], 1, n)

\* digits without its leading zeros, and without its trailing zeros
StripZerosFront(digits) ==
    IF \A i \in 1..Len(digits) : digits[i] = "0" THEN <<>>
    ELSE SubSeq(digits,
                CHOOSE i \in 1..Len(digits) :
                    digits[i] # "0" /\ \A j \in 1..(i - 1) : digits[j] = "0",
                Len(digits))
StripZerosBack(digits) ==
    IF \A i \in 1..Len(digits) : digits[i] = "0" THEN <<>>
    ELSE SubSeq(digits, 1,
                CHOOSE i \in 1..Len(digits) :
                    digits[i] # "0" /\ \A j \in (i + 1)..Len(digits) : digits[j] = "0")

IsOdd(d) == d # <<>> /\ DigitVal(d[Len(d)]) % 2 = 1

\* d with the digit at j raised by one and zeros after it
SuccAt(d, j) ==
    SubSeq(d, 1, j - 1) \o <<DigitChars[DigitVal(d[j]) + 2]>> \o Zeros(Len(d) - j)

\* d + 1
NatSucc(d) ==
    IF \A i \in 1..Len(d) : d[i] = "9" THEN <<"1">> \o Zeros(Len(d))
    ELSE SuccAt(d, CHOOSE j \in 1..Len(d) :
                       d[j] # "9" /\ \A k \in (j + 1)..Len(d) : d[k] = "9")

\* d with the digit at j lowered by one and nines after it
PredAt(d, j) ==
    StripZerosFront(SubSeq(d, 1, j - 1) \o <<DigitChars[DigitVal(d[j])]>> \o Nines(Len(d) - j))

\* d - 1, for d > 0
NatPred(d) ==
    PredAt(d, CHOOSE j \in 1..Len(d) : d[j] # "0" /\ \A k \in (j + 1)..Len(d) : d[k] = "0")

\* index of the first difference within lo..hi of two runs that differ there
RECURSIVE FirstDifference(_, _, _, _)
FirstDifference(a, b, lo, hi) ==
    IF lo = hi THEN lo
    ELSE IF SubSeq(a, lo, (lo + hi) \div 2) = SubSeq(b, lo, (lo + hi) \div 2)
         THEN FirstDifference(a, b, (lo + hi) \div 2 + 1, hi)
         ELSE FirstDifference(a, b, lo, (lo + hi) \div 2)

LessAt(a, b, i) == DigitVal(a[i]) < DigitVal(b[i])

\* a < b, for runs without leading zeros
NatLess(a, b) ==
    \/ Len(a) < Len(b)
    \/ Len(a) = Len(b) /\ a # b /\ LessAt(a, b, FirstDifference(a, b, 1, Len(a)))

\* the digit i of d written with n digits
DigitAt(d, n, i) == IF i > n - Len(d) THEN DigitVal(d[i - (n - Len(d))]) ELSE 0

\* the first digit after the digit i where the sum of the digits of a and b,
\* written with n digits, is not 9 (n + 1 when there is none)
NextNotNine(a, b, n, i) ==
    CHOOSE j \in (i + 1)..(n + 1) :
        /\ j = n + 1 \/ DigitAt(a, n, j) + DigitAt(b, n, j) # 9
        /\ \A k \in (i + 1)..(j - 1) : DigitAt(a, n, k) + DigitAt(b, n, k) = 9

CarryFrom(a, b, n, j) == j <= n /\ DigitAt(a, n, j) + DigitAt(b, n, j) >= 10

\* a carry reaches the digit i of the sum of a and b
CarryInto(a, b, n, i) == CarryFrom(a, b, n, NextNotNine(a, b, n, i))

SumDigit(a, b, n, i) ==
    (DigitAt(a, n, i) + DigitAt(b, n, i) + (IF CarryInto(a, b, n, i) THEN 1 ELSE 0)) % 10

NatAddIn(a, b, n) ==
    StripZerosFront(SubSeq([i \in 1..n |-> DigitChars[SumDigit(a, b, n, i) + 1]], 1, n))

\* a + b
NatAdd(a, b) == NatAddIn(a, b, Max(Len(a), Len(b)) + 1)

\* the first digit after the digit i where a and b differ (n + 1 when there
\* is none)
NextUnequal(a, b, n, i) ==
    CHOOSE j \in (i + 1)..(n + 1) :
        /\ j = n + 1 \/ DigitAt(a, n, j) # DigitAt(b, n, j)
        /\ \A k \in (i + 1)..(j - 1) : DigitAt(a, n, k) = DigitAt(b, n, k)

BorrowFrom(a, b, n, j) == j <= n /\ DigitAt(a, n, j) < DigitAt(b, n, j)

\* the digit i of a - b lends to the digit after it
BorrowInto(a, b, n, i) == BorrowFrom(a, b, n, NextUnequal(a, b, n, i))

DifferenceDigit(a, b, n, i) ==
    (10 + DigitAt(a, n, i) - DigitAt(b, n, i) - (IF BorrowInto(a, b, n, i) THEN 1 ELSE 0)) % 10

\* a - b, for a >= b
NatSub(a, b) ==
    StripZerosFront(SubSeq([i \in 1..Len(a) |-> DigitChars[DifferenceDigit(a, b, Len(a), i) + 1]],
                           1, Len(a)))

\* 2 * d, for d > 0: a digit doubles and takes the carry of the next one
Twice(d) ==
    (IF DigitVal(d[1]) >= 5 THEN <<"1">> ELSE <<>>)
    \o SubSeq([i \in 1..Len(d) |->
                  DigitChars[((2 * DigitVal(d[i])
                               + (IF i < Len(d) /\ DigitVal(d[i + 1]) >= 5 THEN 1 ELSE 0)) % 10) + 1]],
              1, Len(d))

\* a * c, for a digit c, by doubling
RECURSIVE NatTimesDigit(_, _)
NatTimesDigit(a, c) ==
    IF a = <<>> \/ c = 0 THEN <<>>
    ELSE IF c = 1 THEN a
    ELSE IF c % 2 = 0 THEN Twice(NatTimesDigit(a, c \div 2))
    ELSE NatAdd(Twice(NatTimesDigit(a, c \div 2)), a)

\* high * 10^n + low
TimesJoin(high, low, n) ==
    IF high = <<>> THEN low
    ELSE IF low = <<>> THEN high \o Zeros(n)
    ELSE NatAdd(high \o Zeros(n), low)

\* a * b, for a run of digits b that may begin with zeros: the products of
\* a and the two halves of b
RECURSIVE NatTimes(_, _)
NatTimes(a, b) ==
    IF a = <<>> \/ b = <<>> THEN <<>>
    ELSE IF Len(b) = 1 THEN NatTimesDigit(a, DigitVal(b[1]))
    ELSE TimesJoin(NatTimes(a, SubSeq(b, 1, Len(b) \div 2)),
                   NatTimes(a, SubSeq(b, Len(b) \div 2 + 1, Len(b))),
                   Len(b) - Len(b) \div 2)

\* d / 2, for an even d > 0: a digit halves and takes five from an odd digit
\* before it
HalfOfEven(d) ==
    SubSeq([i \in 1..Len(d) |->
               DigitChars[DigitVal(d[i]) \div 2
                          + (IF i > 1 /\ DigitVal(d[i - 1]) % 2 = 1 THEN 5 ELSE 0) + 1]],
           IF DigitVal(d[1]) < 2 THEN 2 ELSE 1, Len(d))

\* An integer of any size: an integer of the model while its magnitude is
\* below 10^9, and beyond that whether it is negative and the digits of its
\* magnitude.
Whole(neg, digits) ==
    IF Len(digits) <= 9
    THEN [t |-> "int", v |-> (IF neg THEN -1 ELSE 1) * DigitsVal(digits, 1, Len(digits))]
    ELSE [t |-> "digits", neg |-> neg, v |-> digits]

WholeOf(n) ==
    IF Abs(n) < 1000000000 THEN [t |-> "int", v |-> n]
    ELSE [t |-> "digits", neg |-> n < 0, v |-> NatToStr(Abs(n))]

IsNegative(x) == IF x.t = "int" THEN x.v < 0 ELSE x.neg

Magnitude(x) == IF x.t = "int" THEN NatOf(Abs(x.v)) ELSE x.v

WholeLess(x, y) ==
    IF x.t = "int" /\ y.t = "int" THEN x.v < y.v
    ELSE IF IsNegative(x) # IsNegative(y) THEN IsNegative(x)
    ELSE IF IsNegative(x) THEN NatLess(Magnitude(y), Magnitude(x))
    ELSE NatLess(Magnitude(x), Magnitude(y))

WholePlusIn(xneg, x, yneg, y) ==
    IF xneg = yneg THEN Whole(xneg, NatAdd(x, y))
    ELSE IF NatLess(x, y) THEN Whole(yneg, NatSub(y, x))
    ELSE Whole(xneg, NatSub(x, y))

WholePlus(x, y) ==
    IF x.t = "int" /\ y.t = "int" THEN WholeOf(x.v + y.v)
    ELSE WholePlusIn(IsNegative(x), Magnitude(x), IsNegative(y), Magnitude(y))

\* x * n, for a natural number n of the model, 0 < n < 10^9
WholeTimes(x, n) ==
    IF x.t = "int" /\ Abs(x.v) <= 2000000000 \div n THEN WholeOf(x.v * n)
    ELSE Whole(IsNegative(x), NatTimes(Magnitude(x), NatOf(n)))

\* An exact decimal: the number digits / 10^scale, the digits without
\* leading zeros.
Decimal(digits, scale) == [digits |-> digits, scale |-> scale]

\* the same number with a scale that is not negative
NonNegScale(digits, scale) ==
    IF scale < 0 THEN Decimal(digits \o Zeros(0 - scale), 0) ELSE Decimal(digits, scale)

\* the digits of x before the point
IntegerPart(x) ==
    IF x.digits = <<>> THEN <<>>
    ELSE IF x.scale <= 0 THEN x.digits \o Zeros(0 - x.scale)
    ELSE SubSeq(x.digits, 1, Len(x.digits) - x.scale)

\* the i-th digit of x after the point
FractionDigit(x, i) ==
    IF Len(x.digits) - x.scale + i >= 1 THEN x.digits[Len(x.digits) - x.scale + i] ELSE "0"

\* the fraction of x is above one half, or is one half next to an odd int
RoundsUp(x, int) ==
    /\ x.scale > 0
    /\ \/ DigitVal(FractionDigit(x, 1)) > 5
       \/ /\ FractionDigit(x, 1) = "5"
          /\ \/ IsOdd(int)
             \/ \E i \in 2..x.scale : FractionDigit(x, i) # "0"

RoundedFrom(x, int) == IF RoundsUp(x, int) THEN NatSucc(int) ELSE int

\* x rounded to the nearest integer, half way to the even one
ToNearestInteger(x) == RoundedFrom(x, IntegerPart(x))

TwiceDecimal(x) == Decimal(Twice(x.digits), x.scale)

HalfDecimal(x) ==
    IF IsOdd(x.digits) THEN Decimal(HalfOfEven(x.digits \o <<"0">>), x.scale + 1)
    ELSE Decimal(HalfOfEven(x.digits), x.scale)

\* x * 2^j
RECURSIVE TimesTwoTo(_, _)
TimesTwoTo(x, j) ==
    IF j = 0 \/ x.digits = <<>> THEN x
    ELSE IF j = 1 THEN TwiceDecimal(x)
    ELSE IF j = -1 THEN HalfDecimal(x)
    ELSE TimesTwoTo(TimesTwoTo(x, j \div 2), j - (j \div 2))

LessAtScale(x, y, scale) ==
    NatLess(x.digits \o Zeros(scale - x.scale), y.digits \o Zeros(scale - y.scale))

\* x < y, for positive decimals
DecimalLess(x, y) == LessAtScale(x, y, Max(x.scale, y.scale))

\* the finite number sign * d / 10^sc, whose shortest text has the digits d
Finite(sign, d, sc) ==
    IF d = <<>> THEN Num(0)
    ELSE IF sc <= 0 /\ Len(d) - sc <= 9 THEN Num(sign * DigitsVal(d, 1, Len(d)) * Pow10(0 - sc))
    ELSE Dec(sign, d, sc)

\* the same for digits that may end in zeros
FiniteOf(sign, digits, d, scale) == Finite(sign, d, scale - (Len(digits) - Len(d)))

Named(sign, x) == FiniteOf(sign, x.digits, StripZerosBack(x.digits), x.scale)

\* 2^52 and 2^53: a double has a significand of 53 bits
TwoTo52 == <<"4", "5", "0", "3", "5", "9", "9", "6", "2", "7", "3", "7", "0", "4", "9", "6">>
TwoTo53 == <<"9", "0", "0", "7", "1", "9", "9", "2", "5", "4", "7", "4", "0", "9", "9", "2">>

\* The decimal x > 0 in binary: w = x / 2^e with the exponent e the one of
\* the doubles around x, that is w in [2^52, 2^53), or e = -1074 and w
\* below 2^52 (a subnormal).
RECURSIVE Scaled(_, _)
Scaled(w, e) ==
    IF ~NatLess(IntegerPart(w), TwoTo53) THEN Scaled(HalfDecimal(w), e + 1)
    ELSE IF e > -1074 /\ NatLess(IntegerPart(w), TwoTo52) THEN Scaled(TwiceDecimal(w), e - 1)
    ELSE [w |-> w, e |-> e]

ScaledFrom(x, e) == Scaled(TimesTwoTo(x, 0 - e), e)

\* (the first exponent tried: 3.3219 is the binary logarithm of ten)
Binary(x) ==
    ScaledFrom(x, Max(((Len(x.digits) - x.scale - 1) * 33219) \div 10000 - 52, -1074))

\* x cut or raised to its first n digits, n being less than their number
Cut(x, n, up) ==
    Decimal(IF up THEN NatSucc(SubSeq(x.digits, 1, n)) ELSE SubSeq(x.digits, 1, n),
            x.scale - (Len(x.digits) - n))

\* of the two decimals of n digits around x, the upper one is the nearer
\* (half way, the even one)
UpperIsNearer(x, n) ==
    \/ DigitVal(x.digits[n + 1]) > 5
    \/ /\ x.digits[n + 1] = "5"
       /\ \/ IsOdd(SubSeq(x.digits, 1, n))
          \/ \E i \in (n + 2)..Len(x.digits) : x.digits[i] # "0"

\* c rounds to the double whose neighbours are half way at lo and hi
Within(c, lo, hi, closed) ==
    IF closed THEN ~DecimalLess(c, lo) /\ ~DecimalLess(hi, c)
    ELSE DecimalLess(lo, c) /\ DecimalLess(c, hi)

\* a decimal of n digits next to x rounds to the double x, which is the
\* only double between lo and hi
Fits(x, lo, hi, closed, n) ==
    \/ n >= Len(x.digits)
    \/ \E up \in BOOLEAN : Within(Cut(x, n, up), lo, hi, closed)

\* the least number of digits from a to b that fits, b being one that does
\* (with more digits a decimal comes nearer to x)
RECURSIVE ShortestLength(_, _, _, _, _, _)
ShortestLength(x, lo, hi, closed, a, b) ==
    IF a >= b THEN b
    ELSE IF Fits(x, lo, hi, closed, (a + b) \div 2)
         THEN ShortestLength(x, lo, hi, closed, a, (a + b) \div 2)
         ELSE ShortestLength(x, lo, hi, closed, (a + b) \div 2 + 1, b)

ShortestOf(sign, x, lo, hi, closed, n, near, far) ==
    Named(sign, IF n >= Len(x.digits) THEN x
                ELSE IF Within(near, lo, hi, closed) THEN near
                ELSE far)

ShortestAt(sign, x, lo, hi, closed, n) ==
    ShortestOf(sign, x, lo, hi, closed, n,
               Cut(x, n, n < Len(x.digits) /\ UpperIsNearer(x, n)),
               Cut(x, n, n < Len(x.digits) /\ ~UpperIsNearer(x, n)))

\* The shortest decimal that rounds to the double x: the fewest digits,
\* seventeen at most, and of two candidates of that length the nearer to x
\* (Number::toString).
Shortest(sign, x, lo, hi, closed) ==
    ShortestAt(sign, x, lo, hi, closed, ShortestLength(x, lo, hi, closed, 1, 17))

\* n * x, for a run of digits n
DecimalTimes(x, n) == Decimal(NatTimes(x.digits, n), x.scale)

\* the double k * 2^e, k > 0, given half = 2^(e-1), between the two
\* decimals half way to the doubles next to it: these are 2^e away, or
\* 2^(e-1) below when it is narrow, k being the least significand of an
\* exponent
Marks(k, half, narrow) ==
    [i \in 1..3 |->
        DecimalTimes(IF i = 1 /\ narrow THEN HalfDecimal(half) ELSE half,
                     CASE i = 1 -> NatPred(IF narrow THEN Twice(Twice(k)) ELSE Twice(k))
                       [] i = 2 -> Twice(k)
                       [] OTHER -> NatSucc(Twice(k)))]

ShortestBetween(sign, m, closed) == Shortest(sign, m[2], m[1], m[3], closed)

DoubleFrom(sign, k, half, narrow) == ShortestBetween(sign, Marks(k, half, narrow), ~IsOdd(k))

DoubleOf(sign, k, e) ==
    DoubleFrom(sign, k, TimesTwoTo(Decimal(<<"1">>, 0), e - 1), k = TwoTo52 /\ e > -1074)

\* the number of the significand k and the exponent e: 0, a double, or
\* Infinity from 2^1024 on
FromBinary(sign, k, e) ==
    IF k = <<>> THEN Num(0)
    ELSE IF e > 971 \/ (k = TwoTo53 /\ e = 971) THEN Inf(sign)
    ELSE DoubleOf(sign, IF k = TwoTo53 THEN TwoTo52 ELSE k, IF k = TwoTo53 THEN e + 1 ELSE e)

FromScaled(sign, b) == FromBinary(sign, ToNearestInteger(b.w), b.e)

\* the double nearest to sign * x, half way the one of the even significand
RoundToDouble(sign, x) == FromScaled(sign, Binary(x))

\* The number sign * d / 10^sc, d being a run of digits without leading or
\* trailing zeros.  A decimal of at most 15 digits between 1e-307 and 1e308
\* is the shortest text of the double nearest to it.
Normalized(sign, d, sc) ==
    IF d = <<>> THEN Num(0)
    ELSE IF Len(d) - sc > 309 THEN Inf(sign)
    ELSE IF Len(d) - sc < -324 THEN Num(0)
    ELSE IF Len(d) <= 15 /\ Len(d) - sc >= -306 /\ Len(d) - sc <= 308 THEN Finite(sign, d, sc)
    ELSE RoundToDouble(sign, NonNegScale(d, sc))

\* the same for digits without leading zeros
WithoutTrailingZeros(sign, digits, d, scale) ==
    Normalized(sign, d, scale - (Len(digits) - Len(d)))

WithoutLeadingZeros(sign, digits, scale) ==
    WithoutTrailingZeros(sign, digits, StripZerosBack(digits), scale)

\* the number sign * digits / 10^scale, digits being a run of decimal digits
MkNumber(sign, digits, scale) == WithoutLeadingZeros(sign, StripZerosFront(digits), scale)

\* the number of an integer below 2^53, which is a double
NumberOfWhole(x) ==
    IF x.t = "int" THEN Num(x.v) ELSE Named(IF x.neg THEN -1 ELSE 1, Decimal(x.v, 0))

\* the integer part of a finite number (ToIntegerOrInfinity)
Trunc(val) ==
    IF val.t = "num" THEN WholeOf(val.v)
    ELSE Whole(val.sign < 0, IntegerPart(Decimal(val.v, val.s)))

\* the exact value of the double |val|, val being no integer of the model
ExactFrom(b) == TimesTwoTo(Decimal(ToNearestInteger(b.w), 0), b.e)

Exact(val) == ExactFrom(Binary(NonNegScale(val.v, val.s)))

\* k + sign * x, with a and b the digits of x and of k at the scale of x
SumAtScale(sign, a, b, scale) ==
    MkNumber(IF sign > 0 \/ NatLess(a, b) THEN 1 ELSE -1,
             IF sign > 0 THEN NatAdd(a, b) ELSE IF NatLess(a, b) THEN NatSub(b, a) ELSE NatSub(a, b),
             scale)

ExactPlus(k, sign, x) ==
    SumAtScale(sign, x.digits, IF k = 0 THEN <<>> ELSE NatToStr(k) \o Zeros(x.scale), x.scale)

\* k + val as the addition of doubles gives it, for a natural number k of
\* the model and a finite val: the exact sum, rounded
PlusInteger(k, val) ==
    IF val.t = "num" /\ Abs(k + val.v) < 1000000000 THEN Num(k + val.v)
    ELSE ExactPlus(k, IF val.t = "num" THEN (IF val.v < 0 THEN -1 ELSE 1) ELSE val.sign,
                   IF val.t = "num" THEN Decimal(NatOf(Abs(val.v)), 0) ELSE Exact(val))

\* exponent notation of the digits d with the exponent e
ExponentText(d, e) ==
    (IF Len(d) = 1 THEN d ELSE <<d[1], ".">> \o SubSeq(d, 2, Len(d)))
        \o <<"e">> \o (IF e < 0 THEN <<"-">> ELSE <<"+">>) \o NatToStr(Abs(e))

\* the k digits d with the decimal point after the n-th: decimal notation
\* for -6 < n <= 21 and exponent notation otherwise
DecimalText(d, k, n) ==
    IF k <= n /\ n <= 21 THEN d \o Zeros(n - k)
    ELSE IF 0 < n /\ n <= 21 THEN SubSeq(d, 1, n) \o <<".">> \o SubSeq(d, n + 1, k)
    ELSE IF -6 < n /\ n <= 0 THEN <<"0", ".">> \o Zeros(0 - n) \o d
    ELSE ExponentText(d, n - 1)

DigitsText(d, s) == DecimalText(d, Len(d), Len(d) - s)

\* Number.prototype.toString of a number that is no integer of the model
DecToStr(val) == (IF val.sign < 0 THEN <<"-">> ELSE <<>>) \o DigitsText(val.v, val.s)

\* String(value): the coercion Storage.setItem applies to a primitive, and
\* the text of an array (its elements joined, null and undefined empty) and
\* of an object
RECURSIVE StringOf(_)
StringOf(val) ==
    CASE val.t = "str" -> val.v
      [] val.t = "num" -> NumToStr(val.v)
      [] val.t = "dec" -> DecToStr(val)
      [] val.t = "inf" -> IF val.v < 0
                          THEN <<"-", "I", "n", "f", "i", "n", "i", "t", "y">>
                          ELSE <<"I", "n", "f", "i", "n", "i", "t", "y">>
      [] val.t = "bool" -> IF val.v THEN <<"t", "r", "u", "e">>
                                    ELSE <<"f", "a", "l", "s", "e">>
      [] val.t = "undefined" -> <<"u", "n", "d", "e", "f", "i", "n", "e", "d">>
      [] val.t = "nan" -> <<"N", "a", "N">>
      [] val.t = "arr" ->
            JoinWith([i \in 1..Len(val.v) |->
                         IF val.v[i].t \in {"null", "undefined"} THEN <<>>
                         ELSE StringOf(val.v[i])], <<",">>)
      [] val.t = "obj" ->
            <<"[", "o", "b", "j", "e", "c", "t", " ", "O", "b", "j", "e", "c", "t", "]">>
      [] OTHER -> <<"n", "u", "l", "l">>

\* the value of the digits d of an exponent, which have no leading zero, up
\* to the bound: an exponent beyond the bound gives the number the bound
\* gives, 0 or Infinity (see ReadExponent)
ExponentOf(d, bound) ==
    IF NatLess(NatOf(bound), d) THEN bound ELSE DigitsVal(d, 1, Len(d))

\* the exponent of a decimal literal, whose mark is at k2 when hasExp, its
\* digits running from ed to k3 - 1.  The exponent is exact as long as the
\* literal can be a double other than 0: its first digit is at most as many
\* places before the point as the integer part has digits, and as many
\* after it as the fraction has, so that an exponent below -325 less the
\* former makes it less than 1e-324, and one above 310 plus the latter makes
\* it 0 or more than 1e309.
ReadExponent(s, p, k1, dot, k2, hasExp, negative, ed, k3) ==
    [int |-> SubSeq(s, p, k1 - 1),
     dot |-> dot,
     frac |-> IF dot THEN SubSeq(s, k1 + 1, k2 - 1) ELSE <<>>,
     exp |-> IF hasExp /\ k3 > ed
             THEN (IF negative THEN -1 ELSE 1)
                  * ExponentOf(StripZerosFront(SubSeq(s, ed, k3 - 1)),
                               IF negative THEN 325 + (k1 - p)
                               ELSE 310 + (IF dot THEN k2 - k1 - 1 ELSE 0))
             ELSE 0,
     expOk |-> hasExp => k3 > ed,
     next |-> k3]

ReadExponentDigits(s, p, k1, dot, k2, hasExp, negative, ed) ==
    ReadExponent(s, p, k1, dot, k2, hasExp, negative, ed,
                 IF hasExp THEN DigitsEnd(s, ed) ELSE k2)

ReadExponentSign(s, p, k1, dot, k2, hasExp, signed) ==
    ReadExponentDigits(s, p, k1, dot, k2, hasExp, signed /\ s[k2 + 1] = "-",
                       IF signed THEN k2 + 2 ELSE k2 + 1)

ReadExponentMark(s, p, k1, dot, k2, hasExp) ==
    ReadExponentSign(s, p, k1, dot, k2, hasExp,
                     hasExp /\ k2 + 1 <= Len(s) /\ s[k2 + 1] \in {"+", "-"})

ReadFractionDigits(s, p, k1, dot, k2) ==
    ReadExponentMark(s, p, k1, dot, k2, k2 <= Len(s) /\ s[k2] \in {"e", "E"})

ReadFraction(s, p, k1, dot) ==
    ReadFractionDigits(s, p, k1, dot, IF dot THEN DigitsEnd(s, k1 + 1) ELSE k1)

ReadPoint(s, p, k1) == ReadFraction(s, p, k1, k1 <= Len(s) /\ s[k1] = ".")

\* a decimal literal read from index p: the digits before and after the
\* point, whether there is a point, the exponent, whether an exponent mark
\* is followed by its digits, and the index after the literal
ReadDecimal(s, p) == ReadPoint(s, p, DigitsEnd(s, p))

\* the value of s[i..j], a few digits in the radix
RECURSIVE RadixVal(_, _, _, _)
RadixVal(s, i, j, radix) ==
    IF j < i THEN 0 ELSE RadixVal(s, i, j - 1, radix) * radix + HexVal(s[j])

\* high * 2^shift + low
RadixJoin(high, low, shift) ==
    IF high = <<>> THEN low
    ELSE IF low = <<>> THEN TimesTwoTo(Decimal(high, 0), shift).digits
    ELSE NatAdd(TimesTwoTo(Decimal(high, 0), shift).digits, low)

\* the decimal digits of the number s[i..j] written in the radix 2^bits
RECURSIVE RadixDigits(_, _, _, _)
RadixDigits(s, i, j, bits) ==
    IF i = j THEN NatOf(HexVal(s[i]))
    ELSE RadixJoin(RadixDigits(s, i, (i + j) \div 2, bits),
                   RadixDigits(s, (i + j) \div 2 + 1, j, bits),
                   bits * (j - (i + j) \div 2))

\* a literal 0x.., 0o.., 0b..: the digits s[i..j] in the radix 2^bits
RadixLiteral(s, i, j, bits) ==
    IF i <= j /\ \A x \in i..j : IsHexDigit(s[x]) /\ HexVal(s[x]) < 2 ^ bits
    THEN MkNumber(1, RadixDigits(s, i, j, bits), 0)
    ELSE NaN

\* the number of the decimal literal r, which is to end at j
DecimalValue(sign, r, j) ==
    IF r.next = j + 1 /\ r.expOk /\ Len(r.int) + Len(r.frac) >= 1
    THEN MkNumber(sign, r.int \o r.frac, Len(r.frac) - r.exp)
    ELSE NaN

UnsignedLiteral(s, sign, p, j) ==
    IF SubSeq(s, p, j) = <<"I", "n", "f", "i", "n", "i", "t", "y">> THEN Inf(sign)
    ELSE DecimalValue(sign, ReadDecimal(s, p), j)

\* a signed decimal literal or Infinity filling s[i..j]
DecimalLiteral(s, i, j) ==
    UnsignedLiteral(s, IF s[i] = "-" THEN -1 ELSE 1, IF s[i] \in {"-", "+"} THEN i + 1 ELSE i, j)

\* the literal s[i..j]: in radix 16, 8 or 2, or a signed decimal literal
NumericLiteral(s, i, j) ==
    IF i > j THEN Num(0)
    ELSE IF j > i /\ s[i] = "0" /\ s[i + 1] \in {"x", "X", "o", "O", "b", "B"}
         THEN RadixLiteral(s, i + 2, j, CASE s[i + 1] \in {"x", "X"} -> 4
                                          [] s[i + 1] \in {"o", "O"} -> 3
                                          [] OTHER -> 1)
    ELSE DecimalLiteral(s, i, j)

\* Number(string): white space trimmed, "" is 0, then a numeric literal;
\* anything else is NaN
StringToNumber(s) == NumericLiteral(s, SkipWs(s, 1), SkipWsBack(s, Len(s)))

\* ------------------------------------------------------------------------
\* JSON
\* ------------------------------------------------------------------------

\* the escape \uxxxx of the code unit n
UnicodeEscape(n) ==
    <<"\\", "u", HexChars[(n \div 4096) + 1], HexChars[((n \div 256) % 16) + 1],
      HexChars[((n \div 16) % 16) + 1], HexChars[(n % 16) + 1]>>

\* a character as JSON.stringify writes it inside a string
EscapeChar(c) ==
    CASE c = "\"" -> <<"\\", "\"">>
      [] c = "\\" -> <<"\\", "\\">>
      [] c = "U+0008" -> <<"\\", "b">>
      [] c = "\f" -> <<"\\", "f">>
      [] c = "\n" -> <<"\\", "n">>
      [] c = "\r" -> <<"\\", "r">>
      [] c = "\t" -> <<"\\", "t">>
      [] OTHER -> IF IsControl(c) THEN UnicodeEscape(ControlCode(c)) ELSE <<c>>

\* the code unit at i is a surrogate without its other half
IsLoneSurrogate(s, i) ==
    \/ s[i] \in HighSurrogates /\ ~(i < Len(s) /\ s[i + 1] \in LowSurrogates)
    \/ s[i] \in LowSurrogates /\ ~(i > 1 /\ s[i - 1] \in HighSurrogates)

\* QuoteJSONString: a lone surrogate is written as its escape
Quote(s) ==
    <<"\"">> \o JoinWith([i \in 1..Len(s) |->
                            IF IsLoneSurrogate(s, i) THEN UnicodeEscape(CodeOfSurrogate(s[i]))
                            ELSE EscapeChar(s[i])], <<>>)
            \o <<"\"">>

\* a property name that is an array index: "0", or digits without a leading
\* zero denoting at most 2^32 - 2
IsArrayIndex(name) ==
    /\ name # <<>>
    /\ \A i \in 1..Len(name) : IsDigit(name[i])
    /\ (name[1] = "0" => Len(name) = 1)
    /\ \/ Len(name) < 10
       \/ /\ Len(name) = 10
          /\ LET max == <<"4", "2", "9", "4", "9", "6", "7", "2", "9", "4">>
             IN \/ name = max
                \/ \E i \in 1..10 : /\ DigitVal(name[i]) < DigitVal(max[i])
                                    /\ \A j \in 1..(i - 1) : name[j] = max[j]

\* of two array indices, a denotes the smaller number
IndexLess(a, b) ==
    \/ Len(a) < Len(b)
    \/ /\ Len(a) = Len(b)
       /\ \E i \in 1..Len(a) : /\ DigitVal(a[i]) < DigitVal(b[i])
                               /\ \A j \in 1..(i - 1) : a[j] = b[j]

\* the pairs of m whose name satisfies the test, in their order
RECURSIVE SelectPairs(_, _)
SelectPairs(m, indices) ==
    IF m = <<>> THEN <<>>
    ELSE IF IsArrayIndex(Head(m)[1]) = indices THEN <<Head(m)>> \o SelectPairs(Tail(m), indices)
    ELSE SelectPairs(Tail(m), indices)

\* pair put into the sequence sorted, which is in ascending order of index
RECURSIVE InsertByIndex(_, _)
InsertByIndex(sorted, pair) ==
    IF sorted = <<>> THEN <<pair>>
    ELSE IF IndexLess(pair[1], Head(sorted)[1]) THEN <<pair>> \o sorted
    ELSE <<Head(sorted)>> \o InsertByIndex(Tail(sorted), pair)

RECURSIVE SortByIndex(_)
SortByIndex(m) ==
    IF m = <<>> THEN <<>> ELSE InsertByIndex(SortByIndex(Tail(m)), Head(m))

\* the pairs written one after the other as property definitions: a name
\* written again keeps its place and takes the later value
RECURSIVE DefineAll(_, _)
DefineAll(acc, m) ==
    IF m = <<>> THEN acc
    ELSE IF \E i \in 1..Len(acc) : acc[i][1] = Head(m)[1]
         THEN DefineAll([i \in 1..Len(acc) |->
                            IF acc[i][1] = Head(m)[1] THEN Head(m) ELSE acc[i]], Tail(m))
         ELSE DefineAll(Append(acc, Head(m)), Tail(m))

\* the properties m in the order the engine enumerates them: array indices
\* ascending, then the other names in the order of their creation
Enumerated(m) == SortByIndex(SelectPairs(m, TRUE)) \o SelectPairs(m, FALSE)

\* the own properties of the object with the pairs m
Properties(m) == Enumerated(DefineAll(<<>>, m))

\* the pairs of m whose value is not undefined
RECURSIVE Defined(_)
Defined(m) ==
    IF m = <<>> THEN <<>>
    ELSE IF Head(m)[2].t = "undefined" THEN Defined(Tail(m))
    ELSE <<Head(m)>> \o Defined(Tail(m))

\* JSON.stringify(value): undefined is written null in an array, left out of
\* an object, and has no text of its own
RECURSIVE JSONStringify(_)

\* the text of the members m of an object, between its braces
RECURSIVE MembersText(_)
MembersText(m) ==
    JoinWith([i \in 1..Len(m) |-> Quote(m[i][1]) \o <<":">> \o JSONStringify(m[i][2])],
             <<",">>)

JSONStringify(val) ==
    CASE val.t = "null" -> <<"n", "u", "l", "l">>
      [] val.t = "nan" -> <<"n", "u", "l", "l">>
      [] val.t = "inf" -> <<"n", "u", "l", "l">>
      [] val.t = "undefined" -> Undefined
      [] val.t = "num" -> NumToStr(val.v)
      [] val.t = "dec" -> DecToStr(val)
      [] val.t = "bool" -> StringOf(val)
      [] val.t = "str" -> Quote(val.v)
      [] val.t = "arr" ->
            <<"[">> \o JoinWith([i \in 1..Len(val.v) |->
                                    IF val.v[i].t = "undefined" THEN <<"n", "u", "l", "l">>
                                    ELSE JSONStringify(val.v[i])], <<",">>)
                    \o <<"]">>
      [] val.t = "obj" ->
            <<"{">> \o MembersText(Defined(Properties(val.v))) \o <<"}">>

\* a parse result: the value read and the index after it
Parsed(val, next) == [ok |-> TRUE, val |-> val, next |-> next]
NoParse == [ok |-> FALSE, val |-> Null, next |-> 0]

StartsAt(s, i, w) == i + Len(w) - 1 <= Len(s) /\ SubSeq(s, i, i + Len(w) - 1) = w

\* index of the first double quote at or after i that no backslash escapes,
\* or 0
RECURSIVE QuoteEnd(_, _)
QuoteEnd(s, i) ==
    IF i > Len(s) THEN 0
    ELSE IF s[i] = "\\" THEN QuoteEnd(s, i + 2)
    ELSE IF s[i] = "\"" THEN i
    ELSE QuoteEnd(s, i + 1)

\* the characters s[i..j] of a JSON string decoded, acc holding those
\* already read; a control character or a malformed escape is an error
RECURSIVE Unescape(_, _, _, _)
Unescape(s, i, j, acc) ==
    IF i > j THEN [ok |-> TRUE, text |-> acc]
    ELSE IF IsControl(s[i]) THEN [ok |-> FALSE, text |-> <<>>]
    ELSE IF s[i] # "\\" THEN Unescape(s, i + 1, j, Append(acc, s[i]))
    ELSE IF i + 1 > j THEN [ok |-> FALSE, text |-> <<>>]
    ELSE IF s[i + 1] \in {"\"", "\\", "/"} THEN Unescape(s, i + 2, j, Append(acc, s[i + 1]))
    ELSE IF s[i + 1] = "b" THEN Unescape(s, i + 2, j, Append(acc, "U+0008"))
    ELSE IF s[i + 1] = "f" THEN Unescape(s, i + 2, j, Append(acc, "\f"))
    ELSE IF s[i + 1] = "n" THEN Unescape(s, i + 2, j, Append(acc, "\n"))
    ELSE IF s[i + 1] = "r" THEN Unescape(s, i + 2, j, Append(acc, "\r"))
    ELSE IF s[i + 1] = "t" THEN Unescape(s, i + 2, j, Append(acc, "\t"))
    ELSE IF s[i + 1] = "u" /\ i + 5 <= j /\ \A x \in (i + 2)..(i + 5) : IsHexDigit(s[x])
         THEN Unescape(s, i + 6, j,
                       Append(acc, CharOfCode(RadixVal(s, i + 2, i + 5, 16))))
    ELSE [ok |-> FALSE, text |-> <<>>]

\* the string decoded as u, the text after it starting at next
DecodedString(u, next) == IF u.ok THEN Parsed(Str(u.text), next) ELSE NoParse

\* the string whose opening quote is at i and whose closing quote is at e
StringUpTo(s, i, e) ==
    IF e > 0 THEN DecodedString(Unescape(s, i + 1, e - 1, <<>>), e + 1) ELSE NoParse

ParseString(s, i) ==
    IF i <= Len(s) /\ s[i] = "\"" THEN StringUpTo(s, i, QuoteEnd(s, i + 1)) ELSE NoParse

\* the JSON number of the decimal literal r: its integer part has no
\* leading zero, and a point or an exponent mark is followed by a digit
JSONNumber(sign, r) ==
    IF /\ Len(r.int) >= 1
       /\ (r.int[1] = "0" => Len(r.int) = 1)
       /\ (r.dot => Len(r.frac) >= 1)
       /\ r.expOk
    THEN Parsed(MkNumber(sign, r.int \o r.frac, Len(r.frac) - r.exp), r.next)
    ELSE NoParse

\* a JSON number: an optional minus, an integer part, an optional fraction
\* and an optional exponent
ParseNumber(s, i) ==
    JSONNumber(IF i <= Len(s) /\ s[i] = "-" THEN -1 ELSE 1,
               ReadDecimal(s, IF i <= Len(s) /\ s[i] = "-" THEN i + 1 ELSE i))

RECURSIVE ParseValue(_, _), ParseElements(_, _, _), ParseMembers(_, _, _)

\* a JSON value starting at index i (white space already skipped)
ParseValue(s, i) ==
    IF i > Len(s) THEN NoParse
    ELSE IF StartsAt(s, i, <<"n", "u", "l", "l">>) THEN Parsed(Null, i + 4)
    ELSE IF StartsAt(s, i, <<"t", "r", "u", "e">>) THEN Parsed(Bool(TRUE), i + 4)
    ELSE IF StartsAt(s, i, <<"f", "a", "l", "s", "e">>) THEN Parsed(Bool(FALSE), i + 5)
    ELSE IF s[i] = "\"" THEN ParseString(s, i)
    ELSE IF s[i] = "[" THEN
        LET j == SkipJSONWs(s, i + 1)
        IN IF j <= Len(s) /\ s[j] = "]" THEN Parsed(Arr(<<>>), j + 1)
           ELSE ParseElements(s, j, <<>>)
    ELSE IF s[i] = "{" THEN
        LET j == SkipJSONWs(s, i + 1)
        IN IF j <= Len(s) /\ s[j] = "}" THEN Parsed(Obj(<<>>), j + 1)
           ELSE ParseMembers(s, j, <<>>)
    ELSE ParseNumber(s, i)

\* the elements of an array from index i on, acc holding those already read
ParseElements(s, i, acc) ==
    LET r == ParseValue(s, i)
        j == SkipJSONWs(s, r.next)
    IN IF ~r.ok \/ j > Len(s) THEN NoParse
       ELSE IF s[j] = "]" THEN Parsed(Arr(Append(acc, r.val)), j + 1)
       ELSE IF s[j] = "," THEN ParseElements(s, SkipJSONWs(s, j + 1), Append(acc, r.val))
       ELSE NoParse

\* the members of an object from index i on, acc holding those already
\* read; the object has them as its properties
ParseMembers(s, i, acc) ==
    LET k == ParseString(s, i)
        c == SkipJSONWs(s, k.next)
    IN IF ~k.ok \/ c > Len(s) \/ s[c] # ":" THEN NoParse
       ELSE LET r == ParseValue(s, SkipJSONWs(s, c + 1))
                j == SkipJSONWs(s, r.next)
            IN IF ~r.ok \/ j > Len(s) THEN NoParse
               ELSE IF s[j] = "}"
                    THEN Parsed(Obj(Properties(Append(acc, <<k.val.v, r.val>>))), j + 1)
               ELSE IF s[j] = "," THEN
                    ParseMembers(s, SkipJSONWs(s, j + 1), Append(acc, <<k.val.v, r.val>>))
               ELSE NoParse

\* JSON.parse(text): the value, or Throw for a SyntaxError
JSONParse(s) ==
    LET r == ParseValue(s, SkipJSONWs(s, 1))
    IN IF r.ok /\ SkipJSONWs(s, r.next) = Len(s) + 1 THEN r.val ELSE Throw

\* ------------------------------------------------------------------------
\* Inputs the operations are called with
\* ------------------------------------------------------------------------

\* domains passed to config, setDomain and clearDomain.  The third one makes
\* the Full Key of "date" under it the Expiration Key of "date" under "b".
Domains == { <<>>,
             <<"b">>,
             <<"b", "_", "d", "a", "t", "e", "_", "e", "x", "p", "i", "r", "a", "t", "i", "o", "n">> }

\* logical keys the operations are called with, the empty one included
Keys == { <<>>, <<"d", "a", "t", "e">> }

\* values passed to set: 0, "x" and {"a":[false]}
Values == { Num(0), Str(<<"x">>),
            Obj(<< << <<"a">>, Arr(<<Bool(FALSE)>>) >> >>) }

\* expiration arguments of set; <<>> stands for an omitted (or empty) one
NoSpec == <<>>
ExpirationTimes == { NoSpec, <<"1", "s">>, <<"-", "1", "s">>, <<"1", "x">> }

\* the type option of config, Undefined when omitted
StorageTypes == { Undefined,
                  Str(<<"l", "o", "c", "a", "l", "S", "t", "o", "r", "a", "g", "e">>),
                  Str(<<"s", "e", "s", "s", "i", "o", "n", "S", "t", "o", "r", "a", "g", "e">>) }

\* the domain option of config, Undefined when omitted
DomainOptions == { Undefined } \cup { Str(d) : d \in Domains }

\* how far the clock advances in one step (milliseconds)
TickSteps == { 1000 }

\* A time zone of the host: local time is UTC + before for the instants
\* earlier than `at`, and UTC + after from `at` on.
UTCZone == [at |-> 0, before |-> 0, after |-> 0]
\* clocks go back one hour (the end of summer time) 1.5 s after the start
FallBackZone == [at |-> Now0 + 1500, before |-> 3600000, after |-> 0]
\* clocks go forward one hour (the start of summer time) at that instant
SpringForwardZone == [at |-> Now0 + 1500, before |-> 0, after |-> 3600000]

Zones == { UTCZone, FallBackZone, SpringForwardZone }

\* ------------------------------------------------------------------------
\* State
\* ------------------------------------------------------------------------

VARIABLES
    Domain,          \* DOMAIN: the current namespace prefix
    store,           \* which Storage `store` refers to
    localStorage,    \* contents of localStorage: a function from keys to strings
    sessionStorage,  \* contents of sessionStorage
    now,             \* the clock, what new Date() reads
    ticks,           \* number of clock advances so far
    zone             \* the time zone of the host

vars == <<Domain, store, localStorage, sessionStorage, now, ticks, zone>>

\* The program state as one value.  The functions of index.ts are operators
\* from a program state P (and their arguments) to the program state they
\* leave and, where they return something, the value returned.
Cur == [Domain |-> Domain, store |-> store, localStorage |-> localStorage,
        sessionStorage |-> sessionStorage, now |-> now, zone |-> zone]

EXPIRE == <<"_", "e", "x", "p", "i", "r", "a", "t", "i", "o", "n", "_", "d", "a", "t", "e">>

\* ------------------------------------------------------------------------
\* Storage (the Web Storage interface)
\* ------------------------------------------------------------------------

EmptyStorage == [k \in {} |-> <<>>]

\* Storage.getItem(key) !== null
hasItem(st, key) == key \in DOMAIN st

\* Storage.setItem(key, value)
setItem(st, key, value) == [k \in (DOMAIN st) \cup {key} |-> IF k = key THEN value ELSE st[k]]

\* Storage.removeItem(key)
removeItem(st, key) == [k \in (DOMAIN st) \ {key} |-> st[k]]

\* JSON.parse(Storage.getItem(key)): a missing item reads as null, which
\* JSON.parse turns into the text "null"
parseItem(st, key) == JSONParse(IF hasItem(st, key) THEN st[key] ELSE StringOf(Null))

\* the contents of the Storage `store` refers to
Backend(P) == IF P.store = "localStorage" THEN P.localStorage ELSE P.sessionStorage

\* P with the contents of the selected Storage replaced by st
WithBackend(P, st) ==
    IF P.store = "localStorage" THEN [P EXCEPT !.localStorage = st]
                                ELSE [P EXCEPT !.sessionStorage = st]

\* ------------------------------------------------------------------------
\* Key derivation
\* ------------------------------------------------------------------------

\* getFullKey without the domain prefix
getFullKey_NoDomain(P, key) == <<"_">> \o key

getFullKey(P, key) == P.Domain \o <<"_">> \o key

getExpirationKey(P, key) == getFullKey(P, key) \o EXPIRE

\* ------------------------------------------------------------------------
\* Expiration
\* ------------------------------------------------------------------------

\* String.prototype.replace(c, ""): s without the first occurrence of c
RECURSIVE RemoveFirst(_, _)
RemoveFirst(s, c) ==
    IF s = <<>> THEN <<>>
    ELSE IF Head(s) = c THEN Tail(s)
    ELSE <<Head(s)>> \o RemoveFirst(Tail(s), c)

allowedFormats == {"h", "d", "m", "s"}

\* the local time of the instant t in the zone z (LocalTime)
LocalTime(z, t) == t + (IF t < z.at THEN z.before ELSE z.after)

\* the instant of the two readings of a local time, with the offset before
\* and after the transition of the zone z
UTCFrom(z, early, late) ==
    IF WholeLess(early, WholeOf(z.at)) THEN early
    ELSE IF ~WholeLess(late, WholeOf(z.at)) THEN late
    ELSE early

\* the instant of the local time l in the zone z (UTC): a local time that
\* occurs twice, or never, is read with the offset before the transition
UTCOf(z, l) == UTCFrom(z, WholePlus(l, WholeOf(0 - z.before)), WholePlus(l, WholeOf(0 - z.after)))

\* the greatest time value (TimeClip)
MaxTime == <<"8", "6", "4", "0", "0", "0", "0", "0", "0", "0", "0", "0", "0", "0", "0", "0">>

\* TimeClip: a time beyond the range of time values is NaN
TimeClip(x) ==
    IF x.t = "digits" /\ NatLess(MaxTime, x.v) THEN NaN ELSE NumberOfWhole(x)

\* DateFromTime(l), the day of the month, from the day of the era of 400
\* years and the year of the era, both counted from a first of March
DateOfYearDay(doy) == doy - (153 * ((5 * doy + 2) \div 153) + 2) \div 5 + 1

DateOfYear(doe, yoe) == DateOfYearDay(doe - (365 * yoe + yoe \div 4 - yoe \div 100))

DateOfEraDay(doe) ==
    DateOfYear(doe, (doe - doe \div 1460 + doe \div 36524 - doe \div 146096) \div 365)

DateFromTime(l) == DateOfEraDay((l \div 86400000 + 719468) % 146097)

\* getHours(), getDate(), getMinutes(), getSeconds() of the local time l
LocalField(unit, l) ==
    CASE unit = "h" -> (l \div 3600000) % 24
      [] unit = "d" -> DateFromTime(l)
      [] unit = "m" -> (l \div 60000) % 60
      [] unit = "s" -> (l \div 1000) % 60

\* the milliseconds of an hour, a day, a minute, a second
UnitLength(unit) ==
    CASE unit = "h" -> 3600000
      [] unit = "d" -> 86400000
      [] unit = "m" -> 60000
      [] unit = "s" -> 1000

\* setHours, setDate, setMinutes or setSeconds(value) on the local time l:
\* the integer part of the value replaces the field, whose unit has ms
\* milliseconds, and the setter returns the new time value
SetField(z, l, ms, field, value) ==
    TimeClip(UTCOf(z, WholePlus(WholeOf(l),
                                WholeTimes(WholePlus(Trunc(value), WholeOf(0 - field)), ms))))

AddToField(z, l, ms, field, time) == SetField(z, l, ms, field, PlusInteger(field, time))

\* timeFormats[unit](time) on a Date holding the instant t, in the zone z:
\* the setter is given the local hour, day, minute or second plus time; the
\* result is NaN when time is infinite, and when it is 1e17 or more, which
\* takes the date out of the range of time values whatever the field
timeFormats(z, t, unit, time) ==
    IF time.t = "inf" THEN NaN
    ELSE IF time.t = "dec" /\ Len(time.v) - time.s > 17 THEN NaN
    ELSE AddToField(z, LocalTime(z, t), UnitLength(unit), LocalField(unit, LocalTime(z, t)), time)

setExpiration(P, key, expirationTime) ==
    LET timeKey == expirationTime[Len(expirationTime)]
        time == StringToNumber(RemoveFirst(expirationTime, timeKey))
    IN IF Len(expirationTime) < 2 \/ timeKey \notin allowedFormats \/ time = NaN
       THEN P
       ELSE WithBackend(P, setItem(Backend(P), getExpirationKey(P, key),
                                   JSONStringify(timeFormats(P.zone, P.now, timeKey, time))))

hasExpirationDate(P, key) == hasItem(Backend(P), getExpirationKey(P, key))

HasDigit(s) == \E i \in 1..Len(s) : IsDigit(s[i])

\* a number that is no integer of the model is a time value (TimeClip): its
\* magnitude is at most 8.64e15
TimeValueOf(val, int) == NatLess(int, MaxTime) \/ (int = MaxTime /\ val.s <= 0)

IsTimeValue(val) == TimeValueOf(val, IntegerPart(Decimal(val.v, val.s)))

ToStringName == <<"t", "o", "S", "t", "r", "i", "n", "g">>

\* new Date(val) raises a TypeError: val is an object with an own property
\* "toString", which in a parsed value is no function, or an array that
\* holds one
RECURSIVE HasNoPrimitive(_)
HasNoPrimitive(val) ==
    \/ val.t = "obj" /\ \E i \in 1..Len(val.v) : val.v[i][1] = ToStringName
    \/ val.t = "arr" /\ \E i \in 1..Len(val.v) : HasNoPrimitive(val.v[i])

\* new Date(t) > new Date(val), as the set of answers an engine can give:
\* numbers, booleans and null are time values; a string goes through
\* Date.parse, whose fallback formats are implementation-defined (a text
\* without any digit is no date in any engine); an object and an array are
\* converted to their text first (hasExpired sets apart those new Date raises
\* a TypeError for)
LaterThanDate(t, val) ==
    CASE val.t = "num" -> {t > val.v}
      [] val.t = "dec" -> {IsTimeValue(val) /\ WholeLess(Trunc(val), WholeOf(t))}
      [] val.t = "bool" -> {t > (IF val.v THEN 1 ELSE 0)}
      [] val.t = "null" -> {t > 0}
      [] val.t \in {"str", "arr", "obj"} ->
            IF HasDigit(StringOf(val)) THEN {TRUE, FALSE} ELSE {FALSE}
      [] OTHER -> {FALSE}

\* hasExpired(key): "throw" when JSON.parse or new Date raises, else "yes"
\* or "no"
hasExpired(P, key) ==
    LET expirationDate == parseItem(Backend(P), getExpirationKey(P, key))
    IN IF expirationDate = Throw \/ HasNoPrimitive(expirationDate) THEN {"throw"}
       ELSE {IF b THEN "yes" ELSE "no" : b \in LaterThanDate(P.now, expirationDate)}

\* ------------------------------------------------------------------------
\* The public operations
\* ------------------------------------------------------------------------

LocalStorageName == <<"l", "o", "c", "a", "l", "S", "t", "o", "r", "a", "g", "e">>

\* config keeping the previous domain when the option is omitted
config_KeepDomain(P, domain, type) ==
    [P EXCEPT !.store = IF type = Undefined \/ type.v = LocalStorageName
                        THEN "localStorage" ELSE "sessionStorage",
              !.Domain = IF domain = Undefined THEN P.Domain ELSE domain.v]

\* domain and type are Undefined when the option is omitted
config(P, domain, type) ==
    [P EXCEPT !.store = IF type = Undefined \/ type.v = LocalStorageName
                        THEN "localStorage" ELSE "sessionStorage",
              !.Domain = IF domain = Undefined \/ domain.v = <<>> THEN <<>> ELSE domain.v]

\* set without its check of the key
set_NoKeyCheck(P, key, value, expirationTime) ==
    LET text == IF IsObjectType(value) THEN JSONStringify(value) ELSE StringOf(value)
        written == WithBackend(P, setItem(Backend(P), getFullKey(P, key), text))
    IN IF expirationTime # <<>> THEN setExpiration(written, key, expirationTime)
                                ELSE written

\* set deleting the Expiration Key when it is given no expiration
set_ClearsExpiration(P, key, value, expirationTime) ==
    IF key = <<>> THEN P
    ELSE LET text == IF IsObjectType(value) THEN JSONStringify(value) ELSE StringOf(value)
             written == WithBackend(P, setItem(Backend(P), getFullKey(P, key), text))
         IN IF expirationTime # <<>>
            THEN setExpiration(written, key, expirationTime)
            ELSE WithBackend(written, removeItem(Backend(written), getExpirationKey(P, key)))

\* expirationTime is <<>> when the argument is omitted (or is "")
set(P, key, value, expirationTime) ==
    IF key = <<>> THEN P
    ELSE LET text == IF IsObjectType(value) THEN JSONStringify(value) ELSE StringOf(value)
             written == WithBackend(P, setItem(Backend(P), getFullKey(P, key), text))
         IN IF expirationTime # <<>> THEN setExpiration(written, key, expirationTime)
                                     ELSE written

\* remove deleting the Full Key only
remove_ValueOnly(P, key) == WithBackend(P, removeItem(Backend(P), getFullKey(P, key)))

\* remove clearing the selected Storage
remove_ClearsStore(P, key) == WithBackend(P, EmptyStorage)

remove(P, key) ==
    WithBackend(P, removeItem(removeItem(Backend(P), getFullKey(P, key)),
                              getExpirationKey(P, key)))

\* a call that returns: the program state it leaves and the value returned
Returns(P, ret) == [state |-> P, ret |-> ret]

\* the try/catch of get: the parsed value, or the text JSON.parse threw on
Caught(parsed, text) == IF parsed = Throw THEN Str(text) ELSE parsed

readValue(P, key) ==
    Caught(parseItem(Backend(P), getFullKey(P, key)),
           IF hasItem(Backend(P), getFullKey(P, key)) THEN Backend(P)[getFullKey(P, key)]
           ELSE StringOf(Null))

\* get deleting only the Full Key of an expired key
get_KeepExpiration(P, key) ==
    { CASE expired = "throw" -> Returns(P, Throw)
        [] expired = "yes" -> Returns(remove_ValueOnly(P, key), Null)
        [] OTHER -> Returns(P, readValue(P, key))
      : expired \in IF hasExpirationDate(P, key) THEN hasExpired(P, key) ELSE {"no"} }

\* get(key): the set of outcomes (one, unless the engine's Date.parse decides)
get(P, key) ==
    { CASE expired = "throw" -> Returns(P, Throw)
        [] expired = "yes" -> Returns(remove(P, key), Null)
        [] OTHER -> Returns(P, readValue(P, key))
      : expired \in IF hasExpirationDate(P, key) THEN hasExpired(P, key) ELSE {"no"} }

\* getAndRemove(key): an exception of get leaves remove undone
getAndRemove(P, key) ==
    { IF res.ret = Throw THEN res ELSE Returns(remove(res.state, key), res.ret)
      : res \in get(P, key) }

setDomain(P, domain) == [P EXCEPT !.Domain = domain]

\* startsWith in the place of includes
includes_Prefix(s, sub) == Len(sub) <= Len(s) /\ SubSeq(s, 1, Len(sub)) = sub

\* String.prototype.includes
includes(s, sub) ==
    \E i \in 1..(Len(s) - Len(sub) + 1) : SubSeq(s, i, i + Len(sub) - 1) = sub

\* domain is Undefined when the argument is omitted
clearDomain(P, domain) ==
    LET d == IF domain = Undefined THEN P.Domain ELSE domain.v
    IN WithBackend(P, [k \in {x \in DOMAIN Backend(P) : ~includes(x, d \o <<"_">>)}
                          |-> Backend(P)[k]])

\* bust clearing the current domain only
bust_CurrentDomain(P) == clearDomain(P, Undefined)

bust(P) == WithBackend(P, EmptyStorage)

\* ------------------------------------------------------------------------
\* The state machine: one action per public operation, and the clock
\* ------------------------------------------------------------------------

Init ==
    /\ Domain = <<>>
    /\ store = "localStorage"
    /\ localStorage = EmptyStorage
    /\ sessionStorage = EmptyStorage
    /\ now = Now0
    /\ ticks = 0
    /\ zone \in Zones

\* the program moves to state P; the clock is not the program's to move
Becomes(P) ==
    /\ Domain' = P.Domain
    /\ store' = P.store
    /\ localStorage' = P.localStorage
    /\ sessionStorage' = P.sessionStorage
    /\ UNCHANGED <<now, ticks, zone>>

Items(P) == Cardinality(DOMAIN P.localStorage) + Cardinality(DOMAIN P.sessionStorage)

Config(domain, type) == \E P \in {config(Cur, domain, type)} : Becomes(P)

Set(key, value, expirationTime) ==
    \E P \in {set(Cur, key, value, expirationTime)} :
        Items(P) <= MaxItems /\ Becomes(P)

Get(key) == \E res \in get(Cur, key) : Becomes(res.state)

Remove(key) == \E P \in {remove(Cur, key)} : Becomes(P)

GetAndRemove(key) == \E res \in getAndRemove(Cur, key) : Becomes(res.state)

SetDomain(domain) == \E P \in {setDomain(Cur, domain)} : Becomes(P)

ClearDomain(domain) == \E P \in {clearDomain(Cur, domain)} : Becomes(P)

Bust == \E P \in {bust(Cur)} : Becomes(P)

\* time passes between two calls
Tick ==
    /\ ticks < MaxTicks
    /\ \E dt \in TickSteps : now' = now + dt
    /\ ticks' = ticks + 1
    /\ UNCHANGED <<Domain, store, localStorage, sessionStorage, zone>>

Next ==
    \/ \E domain \in DomainOptions, type \in StorageTypes : Config(domain, type)
    \/ \E key \in Keys, value \in Values, expirationTime \in ExpirationTimes :
            Set(key, value, expirationTime)
    \/ \E key \in Keys : Get(key)
    \/ \E key \in Keys : Remove(key)
    \/ \E key \in Keys : GetAndRemove(key)
    \/ \E domain \in Domains : SetDomain(domain)
    \/ \E domain \in DomainOptions : ClearDomain(domain)
    \/ Bust
    \/ Tick

Spec == Init /\ [][Next]_vars

\* ------------------------------------------------------------------------
\* The claims.  Each is stated over every reachable program state Cur and
\* every call the inputs allow; keys are written out (domain, "_", key,
\* "_expiration_date") rather than taken from getFullKey.
\* ------------------------------------------------------------------------

\* the keys the claims are checked for: those of the operations and one more
AnyKeys == Keys \cup { <<"k">> }
NonEmptyKeys == AnyKeys \ { <<>> }

\* the values the claims are checked for: those of the operations, "0" and false
AnyValues == Values \cup { Str(<<"0">>), Bool(FALSE) }

\* the Full Key and the Expiration Key of key under domain dom
FullKeyOf(dom, key) == dom \o <<"_">> \o key
ExpirationKeyOf(dom, key) == dom \o <<"_">> \o key \o
    <<"_", "e", "x", "p", "i", "r", "a", "t", "i", "o", "n", "_", "d", "a", "t", "e">>

\* the selected Storage of P holds neither key of `key` under P's domain
HoldsNeither(P, key) ==
    /\ FullKeyOf(P.Domain, key) \notin DOMAIN Backend(P)
    /\ ExpirationKeyOf(P.Domain, key) \notin DOMAIN Backend(P)

\* every outcome of get(key) in P returns ret
GetReturns(P, key, ret) == \A res \in get(P, key) : res.ret = ret

\* P at the instant t
At(P, t) == [P EXCEPT !.now = t]

\* expiration arguments of the form digits + unit, and the offset each denotes
ValidTimes == { <<"1", "s">>, <<"2", "s">>, <<"1", "m">>, <<"1", "h">>, <<"1", "d">> }
OffsetOf(spec) ==
    CASE spec = <<"1", "s">> -> 1000
      [] spec = <<"2", "s">> -> 2000
      [] spec = <<"1", "m">> -> 60000
      [] spec = <<"1", "h">> -> 3600000
      [] spec = <<"1", "d">> -> 86400000

\* non-empty expiration arguments that are too short, end in no unit, or
\* have a prefix that is no number
InvalidTimes == { <<"5">>, <<"s">>, <<"1", "x">>, <<"a", "b", "c">>, <<"-", "3", "x">>,
                  <<"x", "s">>, <<"s", "s">> }

\* C1: set(k, v) without an expiration, immediately followed by get(k),
\* returns a value equal to v, for every non-empty key and every value.
C1_RoundTrip ==
    \A k \in NonEmptyKeys, v \in AnyValues :
        GetReturns(set(Cur, k, v, NoSpec), k, v)

\* C2: after set(k, v, spec) with a valid spec at the instant now, get(k)
\* returns v at every instant up to and including now + offset, and at any
\* later instant returns absent and leaves neither key of k in the Storage.
C2_Expiry ==
    \A k \in NonEmptyKeys, v \in AnyValues, spec \in ValidTimes :
        LET due == now + OffsetOf(spec)
        IN \A t \in {now, due - 1, due, due + 1, due + 1000} :
              \A res \in get(At(set(Cur, k, v, spec), t), k) :
                  IF t <= due
                  THEN res.ret = v
                  ELSE res.ret = Null /\ HoldsNeither(res.state, k)

\* C3: set(k, v, spec) with a non-empty invalid spec stores the value, so
\* that get(k) returns v, and leaves k without an expiration.
C3_InvalidSpec ==
    \A k \in NonEmptyKeys, v \in AnyValues, spec \in InvalidTimes :
        LET P == set(Cur, k, v, spec)
        IN /\ GetReturns(P, k, v)
           /\ ExpirationKeyOf(Domain, k) \notin DOMAIN Backend(P)

\* C4: remove(k), in any state and for any key, leaves neither the Full Key
\* nor the Expiration Key of k in the selected Storage, and get(k) right
\* after it returns absent; so does get(k) after set(k, ..) and remove(k).
C4_Remove ==
    \A k \in AnyKeys :
        /\ HoldsNeither(remove(Cur, k), k)
        /\ GetReturns(remove(Cur, k), k, Null)
        /\ \A v \in AnyValues, spec \in {NoSpec, <<"1", "s">>} :
              GetReturns(remove(set(Cur, k, v, spec), k), k, Null)

\* C4 witness: a state holding both keys of some key, where remove has two
\* items to delete
C4_Witness ==
    \E k \in NonEmptyKeys :
        /\ FullKeyOf(Domain, k) \in DOMAIN Backend(Cur)
        /\ ExpirationKeyOf(Domain, k) \in DOMAIN Backend(Cur)
        /\ Items(remove(Cur, k)) = Items(Cur) - 2

\* C5: getAndRemove(k) returns what get(k) returns in the same state, and
\* leaves neither key of k, so that a following get(k) returns absent.
C5_GetAndRemove ==
    \A k \in AnyKeys :
        /\ {res.ret : res \in getAndRemove(Cur, k)} = {res.ret : res \in get(Cur, k)}
        /\ \A res \in getAndRemove(Cur, k) :
              HoldsNeither(res.state, k) /\ GetReturns(res.state, k, Null)

\* C6 as stated: from an empty Storage, a value set under D1 is absent to
\* get under any other domain D2, and is still stored afterwards.
C6_DomainIsolation ==
    Backend(Cur) = EmptyStorage =>
        \A D1 \in Domains, D2 \in Domains, k \in NonEmptyKeys, v \in AnyValues :
            D1 # D2 =>
                \A res \in get(setDomain(set(setDomain(Cur, D1), k, v, NoSpec), D2), k) :
                    /\ res.ret = Null
                    /\ FullKeyOf(D1, k) \in DOMAIN Backend(res.state)

\* C6 amended: the same, for the domains D1, D2 and keys k where the Full
\* Key of k under D1 is not the Expiration Key of k under D2.
C6_DomainIsolationAmended ==
    Backend(Cur) = EmptyStorage =>
        \A D1 \in Domains, D2 \in Domains, k \in NonEmptyKeys, v \in AnyValues :
            (D1 # D2 /\ FullKeyOf(D1, k) # ExpirationKeyOf(D2, k)) =>
                \A res \in get(setDomain(set(setDomain(Cur, D1), k, v, NoSpec), D2), k) :
                    /\ res.ret = Null
                    /\ FullKeyOf(D1, k) \in DOMAIN Backend(res.state)

\* C6 witness: the selected Storage holds one value, set under another
\* domain than the current one, whose key is no Expiration Key here
C6_Witness ==
    \E D1 \in Domains \ {Domain}, k \in NonEmptyKeys :
        /\ DOMAIN Backend(Cur) = {FullKeyOf(D1, k)}
        /\ FullKeyOf(D1, k) # ExpirationKeyOf(Domain, k)
        /\ GetReturns(Cur, k, Null)

\* x contains sub as a substring
Contains(x, sub) ==
    \E i \in 0..(Len(x) - Len(sub)) : \A j \in 1..Len(sub) : x[i + j] = sub[j]

\* C7: clearDomain(d), d defaulting to the current domain, removes from the
\* selected Storage exactly the keys containing d followed by "_", leaves
\* every other key with its value, and changes neither the other Storage,
\* the domain nor the selection.
C7_ClearDomain ==
    \A d \in DomainOptions :
        LET pattern == (IF d = Undefined THEN Domain ELSE d.v) \o <<"_">>
            P == clearDomain(Cur, d)
            other == IF store = "localStorage" THEN "sessionStorage" ELSE "localStorage"
        IN /\ DOMAIN Backend(P) = {x \in DOMAIN Backend(Cur) : ~Contains(x, pattern)}
           /\ \A x \in DOMAIN Backend(P) : Backend(P)[x] = Backend(Cur)[x]
           /\ P[other] = Cur[other]
           /\ P.Domain = Domain /\ P.store = store /\ P.now = now

\* C7 witness: clearDomain of some domain removes one item and keeps another
C7_Witness ==
    \E d \in Domains :
        /\ DOMAIN Backend(clearDomain(Cur, Str(d))) # {}
        /\ DOMAIN Backend(clearDomain(Cur, Str(d))) # DOMAIN Backend(Cur)

\* C8: bust() leaves the selected Storage without any key, and get(k) then
\* returns absent for every key under every domain.
C8_Bust ==
    /\ DOMAIN Backend(bust(Cur)) = {}
    /\ \A d \in Domains, k \in AnyKeys : GetReturns(setDomain(bust(Cur), d), k, Null)

\* C8 witness: the selected Storage holds values set under two different
\* domains
C8_Witness ==
    \E d1 \in Domains, d2 \in Domains, k1 \in NonEmptyKeys, k2 \in NonEmptyKeys :
        /\ d1 # d2
        /\ FullKeyOf(d1, k1) \in DOMAIN Backend(Cur)
        /\ FullKeyOf(d2, k2) \in DOMAIN Backend(Cur)
        /\ FullKeyOf(d1, k1) # FullKeyOf(d2, k2)
        /\ Items(bust(Cur)) < Items(Cur)

\* C9: set with an empty key writes nothing, whatever the value and the
\* expiration argument: both Storages keep their keys and values.
C9_EmptyKey ==
    \A v \in AnyValues, spec \in ExpirationTimes \cup ValidTimes \cup InvalidTimes :
        LET P == set(Cur, <<>>, v, spec)
        IN P.localStorage = localStorage /\ P.sessionStorage = sessionStorage

\* C9 witness: a state with stored items, and with none under the key the
\* empty logical key would derive
C9_Witness ==
    /\ Items(Cur) = MaxItems
    /\ FullKeyOf(Domain, <<>>) \notin DOMAIN Backend(Cur)
    /\ set(Cur, <<>>, Str(<<"x">>), <<"1", "s">>) = Cur

\* C10: get(k) returns (a value or absent) and never raises, in every
\* reachable state and for every key.
C10_GetTotal ==
    \A k \in AnyKeys : \A res \in get(Cur, k) : res.ret # Throw

\* the Storage a type option names: the primary one when it is omitted
NamedBy(type) ==
    IF type = Undefined THEN "localStorage"
    ELSE IF type.v = <<"s", "e", "s", "s", "i", "o", "n", "S", "t", "o", "r", "a", "g", "e">>
         THEN "sessionStorage" ELSE "localStorage"

\* C11: config(options) selects the Storage named by type (the primary one
\* when type is omitted) and sets the domain to options.domain ("" when
\* omitted); setDomain(d) sets the domain to d and keeps the selection;
\* neither changes the contents of either Storage.
C11_ConfigSetDomain ==
    /\ \A d \in DomainOptions, type \in StorageTypes :
          LET P == config(Cur, d, type)
          IN /\ P.store = NamedBy(type)
             /\ P.Domain = (IF d = Undefined THEN <<>> ELSE d.v)
             /\ P.localStorage = localStorage /\ P.sessionStorage = sessionStorage
    /\ \A d \in Domains :
          LET P == setDomain(Cur, d)
          IN /\ P.Domain = d /\ P.store = store
             /\ P.localStorage = localStorage /\ P.sessionStorage = sessionStorage

\* C11 witness: the secondary Storage is selected under a non-empty domain
\* and both Storages hold items, so that config({}) has both settings to
\* replace and contents to leave alone
C11_Witness ==
    /\ store = "sessionStorage" /\ Domain # <<>>
    /\ DOMAIN localStorage # {} /\ DOMAIN sessionStorage # {}
    /\ config(Cur, Undefined, Undefined).store = "localStorage"
    /\ config(Cur, Undefined, Undefined).Domain = <<>>

\* C12 as stated: in every reachable state, for every domain and logical
\* key, a Storage holding the Expiration Key also holds the Full Key.
C12_ExpirationHasValue ==
    \A st \in {localStorage, sessionStorage}, dom \in Domains, k \in AnyKeys :
        ExpirationKeyOf(dom, k) \in DOMAIN st => FullKeyOf(dom, k) \in DOMAIN st

\* the logical keys C12 is checked for: one more, which reads as another
\* key followed by "_expiration_date"
PairKeys == AnyKeys \cup { <<"d", "a", "t", "e">> \o EXPIRE }

\* in P, a Storage holding the Expiration Key of key under dom holds its
\* Full Key
Paired(P, dom, key) ==
    \A st \in {P.localStorage, P.sessionStorage} :
        ExpirationKeyOf(dom, key) \in DOMAIN st => FullKeyOf(dom, key) \in DOMAIN st

\* P keeps every domain and key paired that is paired in the current state
KeepsPaired(P) ==
    \A dom \in Domains, k \in PairKeys : Paired(Cur, dom, k) => Paired(P, dom, k)

\* the same, but for the domains and keys whose Expiration Key is the
\* Storage key written
KeepsPairedButAt(P, written) ==
    \A dom \in Domains, k \in PairKeys :
        (Paired(Cur, dom, k) /\ ExpirationKeyOf(dom, k) # written) => Paired(P, dom, k)

\* the same, but for the domains and keys whose Full Key is the Storage key
\* removed as an Expiration Key
KeepsPairedButOf(P, removed) ==
    \A dom \in Domains, k \in PairKeys :
        (Paired(Cur, dom, k) /\ FullKeyOf(dom, k) # removed) => Paired(P, dom, k)

\* C12 amended: every public operation keeps, for every domain and logical
\* key, a Storage that holds the Expiration Key holding the Full Key too,
\* but a set whose Full Key is that Expiration Key and a remove, a
\* getAndRemove or an expiring get whose Expiration Key is that Full Key.
C12_ExpirationHasValueAmended ==
    /\ \A k2 \in PairKeys :
          /\ \A v \in Values, spec \in {NoSpec, <<"1", "s">>} :
                KeepsPairedButAt(set(Cur, k2, v, spec), FullKeyOf(Domain, k2))
          /\ KeepsPairedButOf(remove(Cur, k2), ExpirationKeyOf(Domain, k2))
          /\ \A t \in {now, now + 86400000} :
                /\ \A res \in get(At(Cur, t), k2) :
                      KeepsPairedButOf(res.state, ExpirationKeyOf(Domain, k2))
                /\ \A res \in getAndRemove(At(Cur, t), k2) :
                      KeepsPairedButOf(res.state, ExpirationKeyOf(Domain, k2))
    /\ \A d \in DomainOptions : KeepsPaired(clearDomain(Cur, d))
    /\ KeepsPaired(bust(Cur))
    /\ \A d \in DomainOptions, type \in StorageTypes : KeepsPaired(config(Cur, d, type))
    /\ \A d \in Domains : KeepsPaired(setDomain(Cur, d))

\* C12 witness: the selected Storage holds an expired value with its
\* Expiration Key, which get removes together, and the Expiration Key of
\* another domain and key without its Full Key, which set wrote as a Full
\* Key
C12_Witness ==
    /\ \E k \in NonEmptyKeys :
          /\ FullKeyOf(Domain, k) \in DOMAIN Backend(Cur)
          /\ ExpirationKeyOf(Domain, k) \in DOMAIN Backend(Cur)
          /\ \A res \in get(Cur, k) : res.ret = Null /\ HoldsNeither(res.state, k)
    /\ \E dom \in Domains, k \in NonEmptyKeys : ~Paired(Cur, dom, k)

\* C13: for two different non-empty keys a and b and two different values v
\* and w, after set(a, v); set(b, w) what get(a) returns and what get(b)
\* then returns are not equal.
C13_DistinctKeys ==
    \A a \in NonEmptyKeys, b \in NonEmptyKeys, v \in AnyValues, w \in AnyValues :
        (a # b /\ v # w) =>
            \A ra \in get(set(set(Cur, a, v, NoSpec), b, w, NoSpec), a) :
                \A rb \in get(ra.state, b) : ra.ret # rb.ret

\* the keys the lifecycle claim is checked for: one more, which reads as
\* another key followed by "_expiration_date"
LifecycleKeys == NonEmptyKeys \cup { <<"d", "a", "t", "e">> \o EXPIRE }

\* the Storage selected in the current state holds in P the item x as now
Kept(P, x) == x \in DOMAIN P[store] /\ P[store][x] = Backend(Cur)[x]

\* key has, in P, no Expiration Key, or one holding an instant not yet passed
NotExpired(P, key) ==
    \/ ExpirationKeyOf(P.Domain, key) \notin DOMAIN Backend(P)
    \/ LET due == JSONParse(Backend(P)[ExpirationKeyOf(P.Domain, key)])
       IN due.t = "num" /\ P.now <= due.v

\* what the operations on another key k2, setDomain, config and the passage
\* of time do to the item x
LeftAlone(x, k2) ==
    /\ \A t \in {now, now + 1000, now + 86400000} :
          /\ Kept(At(Cur, t), x)
          /\ \A res \in get(At(Cur, t), k2) : Kept(res.state, x)
          /\ Kept(remove(At(Cur, t), k2), x)
    /\ \A w \in AnyValues, spec \in {NoSpec, <<"1", "s">>} :
          LET P == set(Cur, k2, w, spec)
          IN /\ Kept(P, x)
             /\ Kept(remove(P, k2), x)
             /\ \A t \in {now, now + 1001} :
                   \A res \in get(At(P, t), k2) : Kept(res.state, x)
    /\ \A d \in Domains : Kept(setDomain(Cur, d), x)
    /\ \A d \in DomainOptions, type \in StorageTypes : Kept(config(Cur, d, type), x)

\* C14 as stated: the stored entry of a key k (its Full Key) is neither
\* removed nor altered by the passage of time, by get(k) while k is not
\* expired, by get, remove or set of any other key, by setDomain or by
\* config; an expired entry stays until an operation on it removes it.
C14_Lifecycle ==
    \A k \in LifecycleKeys :
        FullKeyOf(Domain, k) \in DOMAIN Backend(Cur) =>
            /\ \A t \in {now, now + 1000, now + 86400000} :
                  NotExpired(At(Cur, t), k) =>
                      \A res \in get(At(Cur, t), k) : Kept(res.state, FullKeyOf(Domain, k))
            /\ \A k2 \in LifecycleKeys \ {k} : LeftAlone(FullKeyOf(Domain, k), k2)

\* C14 amended: the same, the other keys k2 being those whose Expiration
\* Key is not the Full Key of k (k is not k2 followed by "_expiration_date").
C14_LifecycleAmended ==
    \A k \in LifecycleKeys :
        FullKeyOf(Domain, k) \in DOMAIN Backend(Cur) =>
            /\ \A t \in {now, now + 1000, now + 86400000} :
                  NotExpired(At(Cur, t), k) =>
                      \A res \in get(At(Cur, t), k) : Kept(res.state, FullKeyOf(Domain, k))
            /\ \A k2 \in LifecycleKeys \ {k} :
                  ExpirationKeyOf(Domain, k2) # FullKeyOf(Domain, k) =>
                      LeftAlone(FullKeyOf(Domain, k), k2)

\* C14 witness: time has passed, a key of the current domain holds a value
\* whose expiration instant is over but which is still stored, and get of
\* that key removes it
C14_Witness ==
    \E k \in NonEmptyKeys :
        /\ ticks > 0
        /\ FullKeyOf(Domain, k) \in DOMAIN Backend(Cur)
        /\ ExpirationKeyOf(Domain, k) \in DOMAIN Backend(Cur)
        /\ Backend(Cur)[ExpirationKeyOf(Domain, k)] = NumToStr(now - 1000)
        /\ \A res \in get(Cur, k) : HoldsNeither(res.state, k)

\* spec is one or more digits followed by one unit character
IsDigitsUnit(spec) ==
    /\ Len(spec) >= 2
    /\ spec[Len(spec)] \in {"s", "m", "h", "d"}
    /\ \A i \in 1..(Len(spec) - 1) :
          spec[i] \in {"0", "1", "2", "3", "4", "5", "6", "7", "8", "9"}

\* expiration arguments with a sign or white space before the unit
SignedOrSpacedTimes ==
    { <<"-", "1", "s">>, <<"+", "1", "s">>, <<" ", "s">>, <<" ", "1", "s">>, <<"1", " ", "s">>,
      <<"\t", "1", "s">> }

\* expiration arguments with a decimal point, an exponent, a radix prefix
\* or Infinity before the unit
DecimalOrExponentTimes ==
    { <<"1", ".", "5", "s">>, <<".", "5", "m">>, <<"1", "e", "1", "s">>,
      <<"0", "x", "1", "0", "s">>, <<"I", "n", "f", "i", "n", "i", "t", "y", "s">> }

\* C15: setExpiration(key, spec) writes the Expiration Key if and only if
\* spec is one or more digits followed by one unit character of s, m, h, d;
\* for any other spec (a sign, a decimal point, an exponent or white space
\* before the unit included) it writes nothing.
C15_SpecGrammar ==
    \A k \in NonEmptyKeys,
       spec \in ValidTimes \cup InvalidTimes \cup SignedOrSpacedTimes
                    \cup DecimalOrExponentTimes \cup { <<"1", "2", "s">> } :
        LET before == remove(Cur, k)
            after == setExpiration(before, k, spec)
        IN IF IsDigitsUnit(spec)
           THEN ExpirationKeyOf(Domain, k) \in DOMAIN Backend(after)
           ELSE after = before

\* P differs from the current state at most in the items `written` of the
\* selected Storage, which it holds
WritesExactly(P, written) ==
    /\ DOMAIN Backend(P) = DOMAIN Backend(Cur) \cup written
    /\ \A x \in DOMAIN Backend(Cur) \ written : Backend(P)[x] = Backend(Cur)[x]
    /\ P.store = store /\ P.Domain = Domain
    /\ (IF store = "localStorage" THEN P.sessionStorage = sessionStorage
                                  ELSE P.localStorage = localStorage)

\* C16: set(k, v) with a non-empty key and no expiration writes the Full
\* Key of k under the current domain and changes no other key (an empty
\* Storage holds one key afterwards); set(k, v, spec) with a valid spec
\* writes the Full Key and the Expiration Key of k (the latter holding the
\* instant now + offset where local time is UTC) and changes no other key.
C16_WriteFootprint ==
    \A k \in NonEmptyKeys, v \in AnyValues :
        /\ WritesExactly(set(Cur, k, v, NoSpec), {FullKeyOf(Domain, k)})
        /\ (Backend(Cur) = EmptyStorage
                => Cardinality(DOMAIN Backend(set(Cur, k, v, NoSpec))) = 1)
        /\ \A spec \in ValidTimes :
              LET P == set(Cur, k, v, spec)
              IN /\ WritesExactly(P, {FullKeyOf(Domain, k), ExpirationKeyOf(Domain, k)})
                 /\ (zone = UTCZone =>
                        Backend(P)[ExpirationKeyOf(Domain, k)] = NumToStr(now + OffsetOf(spec)))

\* C16 witness: the selected Storage holds both keys of some key, time has
\* passed, and set without an expiration overwrites the Full Key and
\* leaves the Expiration Key as it was
C16_Witness ==
    \E k \in NonEmptyKeys :
        /\ FullKeyOf(Domain, k) \in DOMAIN Backend(Cur)
        /\ ExpirationKeyOf(Domain, k) \in DOMAIN Backend(Cur)
        /\ ticks > 0
        /\ set(Cur, k, Str(<<"y">>), NoSpec) # Cur
        /\ Backend(set(Cur, k, Str(<<"y">>), NoSpec))[ExpirationKeyOf(Domain, k)]
               = Backend(Cur)[ExpirationKeyOf(Domain, k)]

\* the Storage that is not selected, and the type option naming a Storage
Other == IF store = "localStorage" THEN "sessionStorage" ELSE "localStorage"
TypeOf(name) ==
    IF name = "localStorage"
    THEN Str(<<"l", "o", "c", "a", "l", "S", "t", "o", "r", "a", "g", "e">>)
    ELSE Str(<<"s", "e", "s", "s", "i", "o", "n", "S", "t", "o", "r", "a", "g", "e">>)

\* the Storage that is not selected is in P as it is now
OtherUntouched(P) == P[Other] = Cur[Other]

\* set, get, remove, getAndRemove, clearDomain and bust leave the Storage
\* that is not selected as it is
C17_Frame ==
    /\ \A k \in AnyKeys :
          /\ \A v \in AnyValues, spec \in ExpirationTimes :
                OtherUntouched(set(Cur, k, v, spec))
          /\ \A res \in get(Cur, k) : OtherUntouched(res.state)
          /\ OtherUntouched(remove(Cur, k))
          /\ \A res \in getAndRemove(Cur, k) : OtherUntouched(res.state)
    /\ \A d \in DomainOptions : OtherUntouched(clearDomain(Cur, d))
    /\ OtherUntouched(bust(Cur))

\* C17: set, get, remove, getAndRemove, clearDomain and bust read and write
\* the selected Storage only; when the other Storage holds no key of k, a
\* value set for k is absent to get once config has selected the other
\* Storage, and get returns it again once config has selected the first
\* Storage again under the same domain.
C17_BackendScope ==
    /\ C17_Frame
    /\ \A k \in NonEmptyKeys, v \in AnyValues :
          (/\ FullKeyOf(Domain, k) \notin DOMAIN Cur[Other]
           /\ ExpirationKeyOf(Domain, k) \notin DOMAIN Cur[Other]) =>
              LET there == config(set(Cur, k, v, NoSpec), Str(Domain), TypeOf(Other))
              IN \A res \in get(there, k) :
                    /\ res.ret = Null
                    /\ GetReturns(config(res.state, Str(Domain), TypeOf(store)), k, v)

\* C18: after set(k, v) without an expiration get(k) returns v at every
\* later instant, also when an earlier set(k, _, spec) gave k an
\* expiration; after set(k, v, spec2) with a valid spec2, k expires at the
\* instant computed from spec2 at that call.
C18_LatestSetGoverns ==
    \A k \in NonEmptyKeys, v \in AnyValues, spec \in ValidTimes :
        LET earlier == set(Cur, k, Num(0), spec)
            due == now + OffsetOf(spec)
        IN /\ \A t \in {now, due, due + 1, due + 86400000} :
                 GetReturns(At(set(earlier, k, v, NoSpec), t), k, v)
           /\ \A spec2 \in ValidTimes :
                 LET due2 == due + 1 + OffsetOf(spec2)
                 IN \A t \in {due + 1, due2, due2 + 1} :
                       GetReturns(At(set(At(earlier, due + 1), k, v, spec2), t), k,
                                  IF t <= due2 THEN v ELSE Null)

====
